---- MODULE Spec2Model ----
(***************************************************************************)
(* Model of main.py: the module-level construction of the feature, lookup  *)
(* and substitution tables from the font's GSUB/cmap records, and the      *)
(* Convert handler retrieve_input, one step per iteration of its loop.     *)
(*                                                                         *)
(* Text is a sequence of one-character strings; codepoints are their       *)
(* numeric values.  The strings main.py compares ("0xbc6" against the cmap *)
(* code attribute, "3" against a lookup index attribute) are canonical     *)
(* renderings of numbers on both sides and are kept as numbers here.       *)
(* Glyph names stay names; getGlyphID resolves them in the glyph order.    *)
(* A run follows the start of the program and one press of Convert; the    *)
(* handlers clear_all and copy_clipboard are not modelled.                 *)
(***************************************************************************)
EXTENDS Integers, Sequences, FiniteSets, TLC

VARIABLES
    featlist,       \* [scripttag, featvalue] rows read from ScriptRecord elements
    lookuplist,     \* [featurerecordindex, lookuplistval] rows of FeatureRecord elements
    cmapList,       \* <<code, glyph name>> rows read from the cmap map elements
    defaultLang1, defaultLang2,
    lkList, llList, substList,
    prepglyID, prep2glyID, preapp2glyID, post2glyID,
    pc,             \* position of the program
    textBox,        \* text typed in the upper window
    textBox2,       \* text shown in the lower window
    finalDisp,      \* the global output string
    inputValue, ii, level2, level3, level4, charAppend, glyID, glyID2

vars == <<featlist, lookuplist, cmapList, defaultLang1, defaultLang2,
          lkList, llList, substList,
          prepglyID, prep2glyID, preapp2glyID, post2glyID,
          pc, textBox, textBox2, finalDisp,
          inputValue, ii, level2, level3, level4, charAppend, glyID, glyID2>>

fontVars == <<featlist, lookuplist, cmapList>>
tableVars == <<defaultLang1, defaultLang2, lkList, llList, substList,
               prepglyID, prep2glyID, preapp2glyID, post2glyID>>
uiVars == <<textBox, textBox2, finalDisp>>
localVars == <<inputValue, ii, level2, level3, level4, charAppend, glyID, glyID2>>

----------------------------------------------------------------------------
\* Bounds of the model.

\* longest text typed in the upper window
MaxLen == 3
\* most ScriptRecord feature rows of a font in the table-construction runs
MaxRows == 2

----------------------------------------------------------------------------
\* Configuration of main.py (lines 94-104) and literals of retrieve_input.

langID == "tml2"
langID2 == "taml"
\* 0xbc6 0xbc7 0xbc8
prepChar == <<3014, 3015, 3016>>
\* 0xbca 0xbcb 0xbcc
prep2Char == <<3018, 3019, 3020>>
\* 0xbc6 0xbc7 0xbc6
preapp2Char == <<3014, 3015, 3014>>
\* 0xbbe 0xbbe 0xbd7
post2Char == <<3006, 3006, 3031>>
\* 0x0b80 .. 0x0bff
uniRange == <<2944, 3071>>
\* ord(inputValue[ii]) < 31
ControlLimit == 31
\* inputValue + "   "
Pad == <<32, 32, 32>>
\* range(0, len(inputValue) - 3)
PadSkip == 3
\* a local of retrieve_input that no statement has assigned yet
Unbound == -1

----------------------------------------------------------------------------
\* Helpers for Python's list and string operations.

Max(S) == CHOOSE x \in S : \A y \in S : y <= x
Min(S) == CHOOSE x \in S : \A y \in S : x <= y

Count(seq, x) == Cardinality({k \in 1..Len(seq) : seq[k] = x})

RECURSIVE Repeat(_, _)
Repeat(seq, n) == IF n = 0 THEN <<>> ELSE seq \o Repeat(seq, n - 1)

RECURSIVE Flatten(_)
Flatten(seqs) == IF seqs = <<>> THEN <<>> ELSE Head(seqs) \o Flatten(Tail(seqs))

HexDigit(d) == <<"0", "1", "2", "3", "4", "5", "6", "7",
                 "8", "9", "a", "b", "c", "d", "e", "f">>[d + 1]

\* hex(n).replace("0x", "") for n >= 0
RECURSIVE Hex(_)
Hex(n) == IF n < 16 THEN <<HexDigit(n)>>
          ELSE Hex(n \div 16) \o <<HexDigit(n % 16)>>

\* "g+" + hex(glyID).replace("0x", "")
GlyphTok(g) == <<"g", "+">> \o Hex(g)
\* "u+" + inputchar.replace("0x", "")
UniTok(c) == <<"u", "+">> \o Hex(c)
NewLine == <<"\n">>

----------------------------------------------------------------------------
\* The font: glyph order and GSUB Lookup elements, in document order.

GlyphOrder == <<".notdef", "space", "A", "ka", "aa", "i", "e", "ee", "ai",
                "o", "oo", "au", "aulen", "ki", "kx", "kssa">>

\* font2.getGlyphID(name)
getGlyphID(name) == (CHOOSE k \in 1..Len(GlyphOrder) : GlyphOrder[k] = name) - 1

Lig(comps, g) == [components |-> comps, glyph |-> g]
LigSet(g, ligs) == [glyph |-> g, ligatures |-> ligs]

\* root.iter('Lookup'): index attribute and LigatureSet children
LookupElems ==
    << [index |-> 0, sets |-> << LigSet("ka", << Lig(<<"i">>, "ki") >>) >>],
       [index |-> 1, sets |-> << LigSet("ka", << Lig(<<"i", "aa">>, "kssa") >>) >>],
       [index |-> 2, sets |-> << LigSet("ka", << Lig(<<"i">>, "kx") >>),
                                 LigSet("i", << Lig(<<"aa">>, "ki") >>) >>],
       [index |-> 3, sets |-> << LigSet("ka", << Lig(<<"e">>, "kx"),
                                                 Lig(<<"o">>, "ki") >>) >>] >>

FeatRow(tag, fv) == [scripttag |-> tag, featvalue |-> fv]
LookupRow(fi, lv) == [featurerecordindex |-> fi, lookuplistval |-> lv]

\* feature 0 -> lookup 0; 1 -> 1; 2 -> 2, 0; 3 -> 3
LookupRowsA == << LookupRow(0, 0), LookupRow(1, 1), LookupRow(2, 2),
                  LookupRow(2, 0), LookupRow(3, 3) >>
\* feature 0 -> lookup 2; 1 -> 0; 2 -> 5 (no such Lookup); 3 -> 3
LookupRowsB == << LookupRow(0, 2), LookupRow(1, 0), LookupRow(2, 5),
                  LookupRow(3, 3) >>

CmapFull == << <<32, "space">>, <<65, "A">>, <<2965, "ka">>, <<3006, "aa">>,
               <<3007, "i">>, <<3014, "e">>, <<3015, "ee">>, <<3016, "ai">>,
               <<3018, "o">>, <<3019, "oo">>, <<3020, "au">>, <<3031, "aulen">> >>
\* a font with the script's glyphs only: no space, no Latin
CmapScript == SubSeq(CmapFull, 3, Len(CmapFull))

----------------------------------------------------------------------------
\* Module-level table construction.

HasTag(fl, tag) == \E j \in 1..Len(fl) : fl[j].scripttag = tag

RECURSIVE SelectFeat(_, _, _)
SelectFeat(fl, tag, j) ==
    IF j > Len(fl) THEN <<>>
    ELSE (IF fl[j].scripttag = tag THEN <<fl[j].featvalue>> ELSE <<>>)
         \o SelectFeat(fl, tag, j + 1)

\* the fallback branch taken as a second "if": fallback rows are appended too
BuildLkListBoth(fl, d1, d2) ==
    (IF d1 THEN SelectFeat(fl, langID, 1) ELSE <<>>)
    \o (IF d2 THEN SelectFeat(fl, langID2, 1) ELSE <<>>)

\* if defaultLang1: ... elif defaultLang2: ...
BuildLkList(fl, d1, d2) ==
    IF d1 THEN SelectFeat(fl, langID, 1)
    ELSE IF d2 THEN SelectFeat(fl, langID2, 1)
    ELSE <<>>

\* for j in lookuplist: for k in lkList: if lookuplist[j][0] == lkList[k]: append
RECURSIVE BuildLlList(_, _, _)
BuildLlList(ll, lk, j) ==
    IF j > Len(ll) THEN <<>>
    ELSE Repeat(<<ll[j].lookuplistval>>, Count(lk, ll[j].featurerecordindex))
         \o BuildLlList(ll, lk, j + 1)

\* [forglyph, substcomp, substglyph] of one Ligature element
RuleOf(d, e) ==
    << getGlyphID(d.glyph),
       [k \in 1..Len(e.components) |-> getGlyphID(e.components[k])],
       getGlyphID(e.glyph) >>

\* for d in c.iter('LigatureSet'): for e in d.iter('Ligature'): append
RulesOfLookup(c) ==
    Flatten([s \in 1..Len(c.sets) |->
                [r \in 1..Len(c.sets[s].ligatures) |->
                    RuleOf(c.sets[s], c.sets[s].ligatures[r])]])

\* for c in root.iter('Lookup'): for k in llList: if llList[k] == index: append all
RECURSIVE BuildSubstList(_, _, _)
BuildSubstList(lookups, ll, c) ==
    IF c > Len(lookups) THEN <<>>
    ELSE Repeat(RulesOfLookup(lookups[c]), Count(ll, lookups[c].index))
         \o BuildSubstList(lookups, ll, c + 1)

\* for l: for ll in cmapList: if chars[l] == code: ids[l] = getGlyphID(name)
GlyIDsOf(chars, cm) ==
    [l \in 1..Len(chars) |->
        LET hits == {x \in 1..Len(cm) : cm[x][1] = chars[l]}
        IN  IF hits = {} THEN 0 ELSE getGlyphID(cm[Max(hits)][2])]

----------------------------------------------------------------------------
\* The state before the module-level code has run.

SeqsUpTo(S, n) == UNION {[1..k -> S] : k \in 0..n}

InitRest ==
    /\ defaultLang1 = FALSE /\ defaultLang2 = FALSE
    /\ lkList = <<>> /\ llList = <<>> /\ substList = <<>>
    /\ prepglyID = <<0, 0, 0>> /\ prep2glyID = <<0, 0, 0>>
    /\ preapp2glyID = <<0, 0, 0>> /\ post2glyID = <<0, 0, 0>>
    /\ pc = "load"
    /\ textBox = <<>> /\ textBox2 = <<>> /\ finalDisp = <<>>
    /\ inputValue = <<>> /\ ii = 0
    /\ level2 = FALSE /\ level3 = FALSE /\ level4 = FALSE
    /\ charAppend = <<>> /\ glyID = Unbound /\ glyID2 = Unbound

\* script/feature rows of the fonts the conversion is run with
FontFeats ==
    { <<>>,
      << FeatRow("tml2", 0) >>,
      << FeatRow("tml2", 1) >>,
      << FeatRow("tml2", 0), FeatRow("tml2", 2) >>,
      << FeatRow("taml", 3) >>,
      << FeatRow("tml2", 0), FeatRow("taml", 3) >> }

Init ==
    /\ featlist \in FontFeats
    /\ lookuplist = LookupRowsA
    /\ cmapList \in {CmapFull, CmapScript}
    /\ InitRest

\* every font of at most MaxRows script/feature rows, for the table construction
InitBuild ==
    /\ featlist \in SeqsUpTo({FeatRow(t, f) : t \in {"tml2", "taml", "latn"}, f \in 0..3},
                             MaxRows)
    /\ lookuplist \in {LookupRowsA, LookupRowsB}
    /\ cmapList = CmapFull
    /\ InitRest

----------------------------------------------------------------------------
\* Module-level code, in its order of execution.

\* lines 154-182: defaultLang1, defaultLang2, lkList
ResolveFeatures ==
    /\ pc = "load"
    /\ defaultLang1' = HasTag(featlist, langID)
    /\ defaultLang2' = HasTag(featlist, langID2)
    /\ lkList' = BuildLkList(featlist, defaultLang1', defaultLang2')
    /\ pc' = "features"
    /\ UNCHANGED <<fontVars, llList, substList, prepglyID, prep2glyID,
                   preapp2glyID, post2glyID, uiVars, localVars>>

\* lines 186-193: llList
ResolveLookups ==
    /\ pc = "features"
    /\ llList' = BuildLlList(lookuplist, lkList, 1)
    /\ pc' = "lookups"
    /\ UNCHANGED <<fontVars, defaultLang1, defaultLang2, lkList, substList,
                   prepglyID, prep2glyID, preapp2glyID, post2glyID,
                   uiVars, localVars>>

\* lines 198-216: substList
BuildSubst ==
    /\ pc = "lookups"
    /\ substList' = BuildSubstList(LookupElems, llList, 1)
    /\ pc' = "subst"
    /\ UNCHANGED <<fontVars, defaultLang1, defaultLang2, lkList, llList,
                   prepglyID, prep2glyID, preapp2glyID, post2glyID,
                   uiVars, localVars>>

\* lines 265-294: glyph IDs of the reorder tables
BuildPrep ==
    /\ pc = "subst"
    /\ prepglyID' = GlyIDsOf(prepChar, cmapList)
    /\ prep2glyID' = GlyIDsOf(prep2Char, cmapList)
    /\ preapp2glyID' = GlyIDsOf(preapp2Char, cmapList)
    /\ post2glyID' = GlyIDsOf(post2Char, cmapList)
    /\ pc' = "idle"
    /\ UNCHANGED <<fontVars, defaultLang1, defaultLang2, lkList, llList,
                   substList, uiVars, localVars>>

NextBuild == ResolveFeatures \/ ResolveLookups \/ BuildSubst \/ BuildPrep

SpecBuild == InitBuild /\ [][NextBuild]_vars

----------------------------------------------------------------------------
\* retrieve_input, the Convert handler.

\* codepoints that can be typed: LF, "A", ka, vowel sign i, vowel sign e,
\* vowel sign o, and 0x0b80 (in the script range, in no cmap)
Alphabet == {10, 65, 2965, 3007, 3014, 3018, 2944}
Inputs == SeqsUpTo(Alphabet, MaxLen)

\* inputValue + "   "
Padded(s) == s \o Pad
\* range(0, len(inputValue) - 3)
LoopEnd(iv) == Len(iv) - PadSkip

\* ord(inputValue[k]), k counted from 0
CharAt(k) == inputValue[k + 1]

IsControl(c) == c < ControlLimit
InScript(c) == uniRange[1] <= c /\ c <= uniRange[2]

\* the first cmap row with this code, 0 when there is none
CmapFirst(cm, code) ==
    LET hits == {x \in 1..Len(cm) : cm[x][1] = code}
    IN  IF hits = {} THEN 0 ELSE Min(hits)
InCmap(cm, code) == CmapFirst(cm, code) # 0
\* a cmap loop: assigns on the first match, leaves the variable alone otherwise
LookupGly(cm, code, old) ==
    IF InCmap(cm, code) THEN getGlyphID(cm[CmapFirst(cm, code)][2]) ELSE old

Skipping == level2 \/ level3 \/ level4

PrepHit(g2) == \E ij \in 1..Len(prepglyID) : prepglyID[ij] = g2
Prep2Hits(g2) == {ij \in 1..Len(prep2glyID) : prep2glyID[ij] = g2}

\* lines 427-431
AfterPrep(ca, g, g2) ==
    IF PrepHit(g2) THEN GlyphTok(g2) \o GlyphTok(g) ELSE ca

\* lines 433-438: every matching index assigns, the last one stays
AfterPrep2(ca, g, g2) ==
    IF Prep2Hits(g2) # {}
    THEN LET ij == Max(Prep2Hits(g2))
         IN  GlyphTok(preapp2glyID[ij]) \o GlyphTok(g) \o GlyphTok(post2glyID[ij])
    ELSE ca

\* the length test dropped: a rule is matched on its first component alone
RuleMatchesFirstOnly(rule, g, g2) ==
    /\ g = rule[1]
    /\ Len(rule[2]) > 0
    /\ g2 = rule[2][1]

\* lines 442-456: nextComp is the rule's component list
RuleMatches(rule, g, g2) ==
    /\ g = rule[1]
    /\ Len(rule[2]) > 0
    /\ Len(rule[2]) = 1
    /\ g2 = rule[2][1]

SubstHits(sl, g, g2) == {ijk \in 1..Len(sl) : RuleMatches(sl[ijk], g, g2)}

\* lines 441-458: every matching rule assigns, the last one stays
AfterSubst(ca, sl, g, g2) ==
    IF SubstHits(sl, g, g2) # {}
    THEN GlyphTok(sl[Max(SubstHits(sl, g, g2))][3])
    ELSE ca

\* line 459 dropped: a substitution does not skip the next position
Level2AfterNoSubst(sl, g, g2) == PrepHit(g2) \/ Prep2Hits(g2) # {}

\* lines 430, 437, 459
Level2After(sl, g, g2) ==
    PrepHit(g2) \/ Prep2Hits(g2) # {} \/ SubstHits(sl, g, g2) # {}

\* line 460 testing >= 1: every substitution also sets level3
Level3AfterAny(sl, g, g2) ==
    \E ijk \in SubstHits(sl, g, g2) : Len(sl[ijk][2]) >= 1

\* lines 460-461, inside the branch of a matching rule
Level3After(sl, g, g2) ==
    \E ijk \in SubstHits(sl, g, g2) : Len(sl[ijk][2]) >= 2

\* values of glyID and glyID2 after the cmap loops of lines 391-402; glyID3 and
\* glyID4 (lines 404-421) are assigned and never read, and are left out
NewGly == LookupGly(cmapList, CharAt(ii), glyID)
NewGly2 == LookupGly(cmapList, CharAt(ii + 1), glyID2)
\* a codepoint without cmap row taken to clear the pending token
NewAppendCleared ==
    IF InCmap(cmapList, CharAt(ii)) THEN GlyphTok(NewGly) ELSE <<>>

\* charAppend after line 395
NewAppend ==
    IF InCmap(cmapList, CharAt(ii)) THEN GlyphTok(NewGly) ELSE charAppend

\* a read of glyID2 (line 428) or glyID (lines 429, 436, 442) before any
\* assignment to it
NameError ==
    \/ NewGly2 = Unbound
    \/ /\ NewGly = Unbound
       /\ (PrepHit(NewGly2) \/ Prep2Hits(NewGly2) # {} \/ Len(substList) > 0)

\* lines 337-352: Convert pressed with text s in the upper window
Start ==
    /\ pc = "idle"
    /\ \E s \in Inputs :
          /\ textBox' = s
          /\ inputValue' = Padded(s)
    /\ finalDisp' = <<>>
    /\ level2' = FALSE /\ level3' = FALSE /\ level4' = FALSE
    /\ charAppend' = <<>>
    /\ ii' = 0
    /\ glyID' = Unbound /\ glyID2' = Unbound
    /\ pc' = "scan"
    /\ UNCHANGED <<fontVars, tableVars, textBox2>>

InLoop == pc = "scan" /\ ii < LoopEnd(inputValue)

\* lines 356-367
SkipStep ==
    /\ InLoop
    /\ Skipping
    /\ level2' = FALSE
    /\ level3' = (IF level2 THEN level3 ELSE FALSE)
    /\ level4' = (IF level2 \/ level3 THEN level4 ELSE FALSE)
    /\ ii' = ii + 1
    /\ UNCHANGED <<fontVars, tableVars, uiVars, pc, inputValue, charAppend,
                   glyID, glyID2>>

\* lines 377-381
ControlStep ==
    /\ InLoop
    /\ ~Skipping
    /\ IsControl(CharAt(ii))
    /\ charAppend' = NewLine
    /\ finalDisp' = finalDisp \o charAppend'
    /\ level2' = TRUE
    /\ ii' = ii + 1
    /\ UNCHANGED <<fontVars, tableVars, textBox, textBox2, pc, inputValue,
                   level3, level4, glyID, glyID2>>

\* lines 385-388
LiteralStep ==
    /\ InLoop
    /\ ~Skipping
    /\ ~IsControl(CharAt(ii))
    /\ ~InScript(CharAt(ii))
    /\ charAppend' = UniTok(CharAt(ii))
    /\ finalDisp' = finalDisp \o charAppend'
    /\ ii' = ii + 1
    /\ UNCHANGED <<fontVars, tableVars, textBox, textBox2, pc, inputValue,
                   level2, level3, level4, glyID, glyID2>>

ScriptPos ==
    /\ InLoop
    /\ ~Skipping
    /\ ~IsControl(CharAt(ii))
    /\ InScript(CharAt(ii))

\* lines 390-481
ScriptStep ==
    /\ ScriptPos
    /\ ~NameError
    /\ glyID' = NewGly
    /\ glyID2' = NewGly2
    /\ charAppend' = AfterSubst(AfterPrep2(AfterPrep(NewAppend, NewGly, NewGly2),
                                           NewGly, NewGly2),
                                substList, NewGly, NewGly2)
    /\ level2' = Level2After(substList, NewGly, NewGly2)
    /\ level3' = Level3After(substList, NewGly, NewGly2)
    /\ finalDisp' = finalDisp \o charAppend'
    /\ ii' = ii + 1
    /\ UNCHANGED <<fontVars, tableVars, textBox, textBox2, pc, inputValue, level4>>

\* the handler ends in a NameError, which Tk reports; nothing is displayed
ScriptError ==
    /\ ScriptPos
    /\ NameError
    /\ pc' = "error"
    /\ UNCHANGED <<fontVars, tableVars, uiVars, localVars>>

\* lines 486-487, after the last iteration
Finish ==
    /\ pc = "scan"
    /\ ii >= LoopEnd(inputValue)
    /\ textBox2' = textBox2 \o finalDisp
    /\ pc' = "done"
    /\ UNCHANGED <<fontVars, tableVars, textBox, finalDisp, localVars>>

NextConvert ==
    Start \/ SkipStep \/ ControlStep \/ LiteralStep \/ ScriptStep \/ ScriptError
    \/ Finish

Next == NextBuild \/ NextConvert

Spec == Init /\ [][Next]_vars

----------------------------------------------------------------------------
\* Vocabulary of the properties.

Cur == CharAt(ii)
Nxt == CharAt(ii + 1)
Mapped(c) == \E k \in 1..Len(cmapList) : cmapList[k][1] = c
\* the glyph the character map gives codepoint c
GlyphFor(c) == getGlyphID(cmapList[CHOOSE k \in 1..Len(cmapList) : cmapList[k][1] = c][2])
Elems(seq) == {seq[k] : k \in 1..Len(seq)}
\* a scanned in-script position whose codepoint and next codepoint are both mapped
MappedPair == ScriptPos /\ Mapped(Cur) /\ Mapped(Nxt)
MarkGlyphs == Elems(prepglyID) \cup Elems(prep2glyID)
\* rules under anchor g whose first component is g2
FirstCompRules(g, g2) ==
    {k \in 1..Len(substList) : substList[k][1] = g /\ Head(substList[k][2]) = g2}
\* rules under anchor g whose component list is exactly <<g2>>
OneCompRules(g, g2) ==
    {k \in 1..Len(substList) : substList[k][1] = g /\ substList[k][2] = <<g2>>}
SkipCount ==
    (IF level2 THEN 1 ELSE 0) + (IF level3 THEN 1 ELSE 0) + (IF level4 THEN 1 ELSE 0)
Emits(tok) == finalDisp' = finalDisp \o tok
Blank(k) == [j \in 1..k |-> 32]

----------------------------------------------------------------------------
\* C1: at every position of the input that holds a control codepoint the
\* pass appends exactly one newline, moves to the next position and leaves
\* no skip pending, so that the following codepoint is scanned.
C1_ControlConsumesOne ==
    [][(InLoop /\ IsControl(Cur))
         => (Emits(NewLine) /\ ii' = ii + 1 /\ ~Skipping')]_vars

\* C2: at every position of the input that holds a non-control codepoint
\* outside the script range the pass appends the literal-unicode token of
\* that codepoint and consumes that one position.
C2_LiteralEverywhere ==
    [][(InLoop /\ ~IsControl(Cur) /\ ~InScript(Cur))
         => (Emits(UniTok(Cur)) /\ ii' = ii + 1 /\ ~Skipping')]_vars

\* C3: reorder takes precedence over substitution: a scanned pair of a
\* mapped in-script codepoint and a mapped single-part mark emits the mark's
\* glyph token, then the base's, and consumes both positions, whatever rules
\* the substitution list holds.
C3_ReorderBeforeSubst ==
    [][(MappedPair /\ Nxt \in Elems(prepChar))
         => /\ Emits(GlyphTok(GlyphFor(Nxt)) \o GlyphTok(GlyphFor(Cur)))
            /\ ii' = ii + 1 /\ level2']_vars

\* C4: when several rules under the anchor glyph have the next glyph as first
\* component, the result glyph of the first of them in stored order is emitted.
C4_FirstRuleWins ==
    [][(/\ MappedPair
        /\ GlyphFor(Nxt) \notin MarkGlyphs
        /\ Cardinality(FirstCompRules(GlyphFor(Cur), GlyphFor(Nxt))) >= 2)
         => Emits(GlyphTok(substList[Min(FirstCompRules(GlyphFor(Cur),
                                                        GlyphFor(Nxt)))][3]))]_vars

\* C5 as stated: at a scanned pair whose next glyph is no pre-base mark, a rule
\* under the anchor whose first component is the next glyph gives the one
\* glyph token emitted and both positions are consumed; without such a rule
\* the anchor's own glyph token is emitted and one position consumed.
C5_FirstComponentDecides ==
    [][MappedPair /\ GlyphFor(Nxt) \notin MarkGlyphs
         => LET hits == FirstCompRules(GlyphFor(Cur), GlyphFor(Nxt))
            IN  /\ ii' = ii + 1
                /\ IF hits # {}
                   THEN /\ \E k \in hits : Emits(GlyphTok(substList[k][3]))
                        /\ level2'
                   ELSE Emits(GlyphTok(GlyphFor(Cur))) /\ ~Skipping']_vars

\* C5 amended: the same with the rules that match being those whose component
\* list is exactly the next glyph: one of them gives the token emitted and
\* both positions are consumed; when there is none, the anchor's own glyph
\* token is emitted and only its position consumed.
C5_SingleComponentDecides ==
    [][MappedPair /\ GlyphFor(Nxt) \notin MarkGlyphs
         => LET hits == OneCompRules(GlyphFor(Cur), GlyphFor(Nxt))
            IN  /\ ii' = ii + 1
                /\ IF hits # {}
                   THEN /\ \E k \in hits : Emits(GlyphTok(substList[k][3]))
                        /\ level2'
                   ELSE Emits(GlyphTok(GlyphFor(Cur))) /\ ~Skipping']_vars

\* the pair ka, i under a font whose rule ka + i -> ki applied: "g+d" emitted
\* and the skip of the second position pending
C5_Witness ==
    /\ pc = "scan" /\ textBox = <<2965, 3007>> /\ ii = 1
    /\ OneCompRules(3, 5) # {}
    /\ finalDisp = <<"g", "+", "d">> /\ level2

\* C6 as stated: a rule with further components matches on its first component:
\* where such a rule's anchor and first component are the scanned pair, the
\* result glyph of a rule matching on the first component is emitted and both
\* positions are consumed.
C6_MultiMatchesOnFirst ==
    [][(/\ MappedPair
        /\ GlyphFor(Nxt) \notin MarkGlyphs
        /\ \E k \in FirstCompRules(GlyphFor(Cur), GlyphFor(Nxt)) :
              Len(substList[k][2]) > 1)
         => /\ \E k \in FirstCompRules(GlyphFor(Cur), GlyphFor(Nxt)) :
                  Emits(GlyphTok(substList[k][3]))
            /\ ii' = ii + 1 /\ level2']_vars

\* C6 amended: a rule with more than one component never matches: where the
\* only rules under the anchor whose first component is the next glyph have
\* further components, the anchor's own glyph token is emitted and the next
\* position is not consumed.
C6_MultiNeverMatches ==
    [][(/\ MappedPair
        /\ GlyphFor(Nxt) \notin MarkGlyphs
        /\ FirstCompRules(GlyphFor(Cur), GlyphFor(Nxt)) # {}
        /\ OneCompRules(GlyphFor(Cur), GlyphFor(Nxt)) = {})
         => /\ Emits(GlyphTok(GlyphFor(Cur)))
            /\ ii' = ii + 1 /\ ~Skipping']_vars

\* the pair ka, i under a font whose only rule for it is ka + i + aa -> kssa:
\* "g+3" emitted for ka, no skip pending
C6_Witness ==
    /\ pc = "scan" /\ textBox = <<2965, 3007>> /\ ii = 1
    /\ FirstCompRules(3, 5) # {} /\ OneCompRules(3, 5) = {}
    /\ finalDisp = <<"g", "+", "3">> /\ ~Skipping

\* C7: a scanned pair whose second codepoint is the i-th two-part mark emits
\* the i-th pre-append glyph, the base glyph and the i-th post-append glyph,
\* and consumes both positions.
C7_TwoPartTriple ==
    [][MappedPair
         => \A i \in 1..Len(prep2Char) :
               Nxt = prep2Char[i]
                 => /\ Emits(GlyphTok(preapp2glyID[i]) \o GlyphTok(GlyphFor(Cur))
                             \o GlyphTok(post2glyID[i]))
                    /\ ii' = ii + 1 /\ level2']_vars

\* C8: the feature indices selected are those of the primary-tag rows, in
\* order, when there is one; else those of the fallback-tag rows; else none,
\* and then the lookup list and the substitution list stay empty.
C8_FeatureFallback ==
    LET rowsOf(tag) == SelectSeq(featlist, LAMBDA r : r.scripttag = tag)
        values(rows) == [k \in 1..Len(rows) |-> rows[k].featvalue]
        primary == rowsOf("tml2")
        fallback == rowsOf("taml")
    IN  pc # "load"
          => /\ lkList = IF primary # <<>> THEN values(primary) ELSE values(fallback)
             /\ (primary = <<>> /\ fallback = <<>> /\ pc = "idle")
                   => (lkList = <<>> /\ llList = <<>> /\ substList = <<>>)

\* a fallback row before a primary row: only the primary row's feature selected
C8_Witness ==
    /\ pc = "idle"
    /\ featlist = << FeatRow("taml", 3), FeatRow("tml2", 0) >>
    /\ lkList = <<0>>

\* C9: the substitution list is the rules of the resolved lookups, lookup by
\* lookup in the order of the resolved lookup list (a lookup listed k times
\* contributing k times, an index without Lookup nothing).
C9_ResolvedOrder ==
    LET rulesOfIndex(n) ==
            Flatten([c \in 1..Len(LookupElems) |->
                        IF LookupElems[c].index = n
                        THEN RulesOfLookup(LookupElems[c]) ELSE <<>>])
    IN  pc \in {"subst", "idle"}
          => substList = Flatten([k \in 1..Len(llList) |-> rulesOfIndex(llList[k])])

\* C10: during a pass at most one skip is pending, the cursor stays within
\* 0..n and moves one position at a time until n, the four positions read at
\* the cursor lie in the padded input, and at n the pass ends without
\* emitting, a pending skip notwithstanding.
C10_CursorAndSkip ==
    /\ [](pc \in {"scan", "done", "error"}
            => /\ SkipCount \in {0, 1}
               /\ inputValue = textBox \o Blank(3)
               /\ ii \in 0..Len(textBox)
               /\ (pc = "scan" /\ ii < Len(textBox)) => ii + 4 <= Len(inputValue)
               /\ pc = "done" => ii = Len(textBox))
    /\ [][pc = "scan"
            => \/ ii < Len(textBox) /\ pc' = "scan" /\ ii' = ii + 1
               \/ ii < Len(textBox) /\ pc' = "error" /\ ii' = ii
                  /\ finalDisp' = finalDisp
               \/ ii = Len(textBox) /\ pc' = "done" /\ ii' = ii
                  /\ finalDisp' = finalDisp]_vars

\* the cursor at n with the skip of a control codepoint still pending
C10_Witness ==
    /\ pc = "scan" /\ textBox = <<65, 10>> /\ ii = Len(textBox) /\ level2

----------------------------------------------------------------------------
\* the glyph id in use for codepoint c: the character map's, or the value old
\* that the variable still holds when c has no row
GlyphOrStale(c, old) == IF Mapped(c) THEN GlyphFor(c) ELSE old
\* a scanned in-script position whose codepoint has no row in the character map
UnmappedPos == ScriptPos /\ ~Mapped(Cur)

\* C11 as stated: at a scanned in-script position whose codepoint is absent
\* from the character map no error is reported: the pass goes on with the
\* glyph id of the most recent earlier position, and emits the pending token
\* again unless a reorder or a rule on the stale glyph id replaces it.
C11_LeakWithoutError ==
    [][UnmappedPos
         => /\ pc' = "scan" /\ ii' = ii + 1
            /\ glyID' = glyID
            /\ (/\ GlyphOrStale(Nxt, glyID2) \notin MarkGlyphs
                /\ OneCompRules(glyID, GlyphOrStale(Nxt, glyID2)) = {})
                  => Emits(charAppend)]_vars

\* C11 amended: the same unless a glyph id that the position reads was never
\* assigned (the next glyph id always, the own glyph id when the next glyph is
\* a mark or the substitution list is not empty): then the pass ends in an
\* error at that position and emits nothing.  Otherwise the stale glyph id
\* stays, the pending token of the most recent earlier position (none at the
\* start) is emitted again unless replaced, and a single-part reorder that is
\* not replaced swaps with the stale glyph id.
C11_LeakOrAbort ==
    [][UnmappedPos
         => LET g2 == GlyphOrStale(Nxt, glyID2)
                unassigned ==
                    \/ g2 = Unbound
                    \/ glyID = Unbound /\ (g2 \in MarkGlyphs \/ substList # <<>>)
            IN  IF unassigned
                THEN pc' = "error" /\ finalDisp' = finalDisp /\ ii' = ii
                ELSE /\ pc' = "scan" /\ ii' = ii + 1
                     /\ glyID' = glyID
                     /\ (g2 \notin MarkGlyphs /\ OneCompRules(glyID, g2) = {})
                           => (Emits(charAppend) /\ ~Skipping')
                     /\ (/\ g2 \in Elems(prepglyID)
                         /\ g2 \notin Elems(prep2glyID)
                         /\ OneCompRules(glyID, g2) = {})
                           => (Emits(GlyphTok(g2) \o GlyphTok(glyID)) /\ level2')]_vars

\* "A" then 0x0b80 under a font without rules: the token of "A" emitted twice
C11_Witness ==
    /\ pc = "scan" /\ textBox = <<65, 2944>> /\ ii = 2
    /\ substList = <<>>
    /\ finalDisp = UniTok(65) \o UniTok(65)

\* C12: at a scanned in-script position whose codepoint is mapped, the
\* codepoint at cursor+1 alone decides: unless it is a configured pre-base
\* mark or maps to the first component of a rule under the position's glyph,
\* the position emits its own glyph token and cursor+1 is not skipped.
C12_NextCodepointDecides ==
    [][(/\ ScriptPos /\ Mapped(Cur)
        /\ Nxt \notin Elems(prepChar) \cup Elems(prep2Char)
        /\ ~(Mapped(Nxt) /\ FirstCompRules(GlyphFor(Cur), GlyphFor(Nxt)) # {}))
         => /\ Emits(GlyphTok(GlyphFor(Cur)))
            /\ ii' = ii + 1 /\ ~Skipping']_vars

\* C12 with the glyph id of cursor+1 assigned by an earlier position, so that
\* the pass does not end in an error there
C12_NextCodepointDecidesStale ==
    [][(/\ ScriptPos /\ Mapped(Cur)
        /\ glyID2 # Unbound
        /\ Nxt \notin Elems(prepChar) \cup Elems(prep2Char)
        /\ ~(Mapped(Nxt) /\ FirstCompRules(GlyphFor(Cur), GlyphFor(Nxt)) # {}))
         => /\ Emits(GlyphTok(GlyphFor(Cur)))
            /\ ii' = ii + 1 /\ ~Skipping']_vars

====
